---- MODULE Spec2Model ----
(***************************************************************************)
(* A model of examples/summarization/utils.py: encode_file and its cache,  *)
(* SummarizationDataset, its collate_fn, and SortishSampler.__iter__.       *)
(*                                                                         *)
(* Python lists and 1-D tensors are sequences; a Python index i (0-based)  *)
(* is position i + 1 of the sequence.  Dataset indices keep their Python   *)
(* values 0..N-1.                                                          *)
(***************************************************************************)
EXTENDS Integers, Sequences, FiniteSets, TLC

VARIABLES
    \* SortishSampler
    data_source,   \* self.data_source
    bs,            \* self.bs
    mega,          \* the multiplier of bs in the megabatch size (50 in the code)
    pc,            \* __iter__ not called yet, returned, or raised
    idxs,          \* line 156, as the call left it
    ck_idx,        \* line 163: the candidate batches, the largest first
    sort_idx,      \* line 164: the other batches, shuffled and concatenated
    max_ck,        \* line 162 (a Python position)
    order,         \* the sequence the returned iterator yields
    \* encode_file
    file,          \* the lines of the text file at data_path (readlines())
    disk,          \* the cache files: derived path -> pickled list
    writer,        \* per cache file, the arguments of the call that wrote it
    calls,         \* the encode_file calls made so far, with what each did
    \* SummarizationDataset
    given,         \* the arguments __init__ was called with
    built,         \* whether __init__ has run
    source,        \* self.source
    target,        \* self.target
    res,           \* the last dataset operation and what it returned
    \* collate_fn
    batch,         \* the list of items handed to collate_fn
    out            \* what collate_fn returned

samplerVars == <<data_source, bs, mega, pc, idxs, ck_idx, sort_idx, max_ck, order>>

encodeVars == <<file, disk, writer, calls>>

datasetVars == <<given, built, source, target, res>>

collateVars == <<batch, out>>

vars == <<samplerVars, encodeVars, datasetVars, collateVars>>

----------------------------------------------------------------------------
(* Bounds of the model *)

\* SpecSampler: dataset sizes 0..MaxN, batch sizes 1..MaxBs, len() values 1..MaxKey
MaxN == 5
MaxBs == 2
MaxKey == 2
\* SpecMega: batch sizes 2..MegaBs, and megabatches also of MegaScaled * bs
\* entries, so that a data source of MegaN entries fills more than one
MegaN == 5
MegaBs == 2
MegaKey == 2
MegaScaled == 2
\* SpecEncode: at most MaxCalls calls of encode_file
MaxCalls == 2
\* SpecDataset: source and target lists of at most MaxPairs examples, n_obs
\* up to MaxObs, batch sizes 1..MaxBatchSize
MaxPairs == 2
MaxObs == 2
MaxBatchSize == 2
\* SpecCollate: batches of at most MaxBatch items
MaxBatch == 2

----------------------------------------------------------------------------
(* Python / numpy helpers *)

Min(a, b) == IF a <= b THEN a ELSE b

Range(s) == {s[i] : i \in DOMAIN s}

\* len(x) of a list (a sequence) or of a dict-like object (a record): the
\* number of its entries
PyLen(x) == Cardinality(DOMAIN x)

RECURSIVE Orderings(_)
\* every sequence that lists each element of S once
Orderings(S) ==
    IF S = {} THEN {<<>>}
    ELSE UNION {{<<x>> \o p : p \in Orderings(S \ {x})} : x \in S}

\* every ordering of 0..n-1 (np.random.permutation(n))
Permutations0(n) == Orderings(0..(n - 1))

\* every reordering of the entries of s (np.random.permutation(s), s a list)
Shuffles(s) ==
    {[i \in DOMAIN s |-> s[p[i] + 1]] : p \in Permutations0(Len(s))}

\* [s[i : i + sz] for i in range(0, len(s), sz)]
Chunks(s, sz) ==
    [c \in 1..((Len(s) + sz - 1) \div sz) |->
        SubSeq(s, (c - 1) * sz + 1, Min(c * sz, Len(s)))]

RECURSIVE Flatten(_)
\* np.concatenate of a NON-EMPTY list of 1-D arrays
Flatten(ss) ==
    IF ss = <<>> THEN <<>> ELSE Head(ss) \o Flatten(Tail(ss))

----------------------------------------------------------------------------
(* SortishSampler *)

\* the multiplier of line 157: sz = self.bs * 50
MEGABATCH_MULT == 50

\* a data_source entry whose len() is k
Item(k) == [j \in 1..k |-> 0]

\* all data sources of at most n entries with len() values 1..k
DataSources(n, k) ==
    UNION {[1..m -> {Item(x) : x \in 1..k}] : m \in 0..n}

\* SortishSampler.key
key(i) == PyLen(data_source[i + 1])

\* SortishSampler.__len__
SamplerLen == Len(data_source)

RECURSIVE InsertDesc(_, _)
\* x placed behind every entry whose key is at least its own
InsertDesc(r, x) ==
    IF r = <<>> THEN <<x>>
    ELSE IF key(Head(r)) >= key(x) THEN <<Head(r)>> \o InsertDesc(Tail(r), x)
    ELSE <<x>> \o r

RECURSIVE InsertAsc(_, _)
InsertAsc(r, x) ==
    IF r = <<>> THEN <<x>>
    ELSE IF key(Head(r)) <= key(x) THEN <<Head(r)>> \o InsertAsc(Tail(r), x)
    ELSE <<x>> \o r

RECURSIVE SortInto(_, _)
SortInto(r, s) ==
    IF s = <<>> THEN r ELSE SortInto(InsertDesc(r, Head(s)), Tail(s))

RECURSIVE SortIntoAsc(_, _)
SortIntoAsc(r, s) ==
    IF s = <<>> THEN r ELSE SortIntoAsc(InsertAsc(r, Head(s)), Tail(s))

\* sorted(s, key=self.key) with reverse=True left out
SortedNoReverse(s) == SortIntoAsc(<<>>, s)

\* sorted(s, key=self.key, reverse=True): descending by key, stable
SortedByKeyReverse(s) == SortInto(<<>>, s)

\* np.argmax(v): the Python position of the first largest entry
ArgMax(v) ==
    CHOOSE i \in 0..(Len(v) - 1) :
        /\ \A j \in 0..(Len(v) - 1) : v[j + 1] <= v[i + 1]
        /\ \A j \in 0..(i - 1) : v[j + 1] < v[i + 1]

\* a, b = b, a on Python positions 0 and m of ck
SwapFirst(ck, m) ==
    [c \in DOMAIN ck |->
        IF c = 1 THEN ck[m + 1] ELSE IF c = m + 1 THEN ck[1] ELSE ck[c]]

\* lines 157-158: the megabatches of a permutation p
MegabatchesOf(p) == Chunks(p, bs * mega)

\* line 159: every megabatch sorted by key, largest first, all concatenated
SortedMegabatches(p) ==
    LET ck == MegabatchesOf(p)
    IN  Flatten([c \in DOMAIN ck |-> SortedByKeyReverse(ck[c])])

\* lines 160-161: the candidate batches
CandidateBatches(p) == Chunks(SortedMegabatches(p), bs)

\* line 162: the batch whose first entry has the largest key
MaxChunk(ck) == ArgMax([c \in DOMAIN ck |-> key(ck[c][1])])

\* line 164: the batches behind the first in a random order, concatenated
ShuffledRest(ck) ==
    IF Len(ck) > 1 THEN {Flatten(q) : q \in Shuffles(Tail(ck))} ELSE {<<>>}

\* lines 155-166: one call of __iter__, with both random draws.
\* np.concatenate raises ValueError on an empty list of arrays (line 159).
\* (a value bound by \E over a one-element set is computed once)
Iter ==
    /\ pc = "start"
    /\ \E p \in Permutations0(SamplerLen) :
          /\ idxs' = p
          /\ IF MegabatchesOf(p) = <<>>
             THEN /\ pc' = "raised"
                  /\ UNCHANGED <<ck_idx, sort_idx, max_ck, order>>
             ELSE \E m \in {MaxChunk(CandidateBatches(p))} :
                  \E ck \in {SwapFirst(CandidateBatches(p), m)} :
                  \E rest \in ShuffledRest(ck) :
                     /\ max_ck' = m
                     /\ ck_idx' = ck
                     /\ sort_idx' = rest
                     /\ order' = ck[1] \o rest
                     /\ pc' = "done"
    /\ UNCHANGED <<data_source, bs, mega>>
    /\ UNCHANGED <<encodeVars, datasetVars, collateVars>>

----------------------------------------------------------------------------
(* encode_file and its cache *)

(* A text is a sequence of tokens: words and the whitespace between them. *)
Whitespace == {" ", "\n"}

\* line 19
T5_PREFIX == <<"summarize:", " ">>

RECURSIVE LStrip(_)
LStrip(t) ==
    IF t # <<>> /\ Head(t) \in Whitespace THEN LStrip(Tail(t)) ELSE t

RECURSIVE RStrip(_)
RStrip(t) ==
    IF t # <<>> /\ t[Len(t)] \in Whitespace
    THEN RStrip(SubSeq(t, 1, Len(t) - 1)) ELSE t

\* the line taken as read, str.strip forgotten
NoStrip(t) == t

\* str.strip
Strip(t) == LStrip(RStrip(t))

\* lmap(len, x)
LensOf(x) == [i \in DOMAIN x |-> PyLen(x[i])]

(* The tokenizer is a collaborator handed to encode_file; two stand-ins    *)
(* with the conventions of BartTokenizer and T5Tokenizer: deterministic,   *)
(* truncating to max_length, padding on the right.                         *)
Tokenizers == {"bart", "t5"}

WordId(w) == CASE w = "a" -> 5 [] w = "b" -> 6 [] w = "summarize:" -> 7 [] OTHER -> 3

TokPad(tok) == IF tok = "bart" THEN 1 ELSE 0

RECURSIVE WordIds(_)
WordIds(t) ==
    IF t = <<>> THEN <<>>
    ELSE IF Head(t) \in Whitespace THEN WordIds(Tail(t))
    ELSE <<WordId(Head(t))>> \o WordIds(Tail(t))

Truncate(s, n) == SubSeq(s, 1, Min(Len(s), n))

\* the ids of one text with the special tokens, cut to max_length
RealIds(tok, text, max_length) ==
    IF tok = "bart"
    THEN <<0>> \o Truncate(WordIds(text), max_length - 2) \o <<2>>
    ELSE Truncate(WordIds(text), max_length - 1) \o <<1>>

\* tokenizer.batch_encode_plus([text], max_length=..., pad_to_max_length=...,
\* return_tensors="pt"): tensors of shape (1, L)
BatchEncodePlus(tok, text, max_length, pad_to_max_length) ==
    LET real == RealIds(tok, text, max_length)
        L == IF pad_to_max_length THEN max_length ELSE Len(real)
    IN  [input_ids |->
            <<[j \in 1..L |-> IF j <= Len(real) THEN real[j] ELSE TokPad(tok)]>>,
         attention_mask |->
            <<[j \in 1..L |-> IF j <= Len(real) THEN 1 ELSE 0]>>]

\* the text file encode_file is called on
DATA_PATH == <<"train.source">>

Digit(d) == <<"0", "1", "2", "3", "4", "5", "6", "7", "8", "9">>[d + 1]

RECURSIVE Decimal(_)
\* the decimal digits of n, as an f-string writes them
Decimal(n) ==
    IF n < 10 THEN <<Digit(n)>> ELSE Decimal(n \div 10) \o <<Digit(n % 10)>>

\* line 36: f"{data_path}_{tok_name}{max_length}.pkl"
CachePath(data_path, tok_name, max_length) ==
    data_path \o <<"_">> \o tok_name \o Decimal(max_length) \o <<".pkl">>

\* a save that runs before the loop has filled the list
TorchSaveEmpty(d, path, obj) == (path :> <<>>) @@ d

\* line 52: torch.save(obj, path)
TorchSave(d, path, obj) == (path :> obj) @@ d

\* line 38: torch.load(path.open("rb"))
TorchLoad(d, path) == d[path]

\* a check that never finds the cache file
NeverExists(d, path) == FALSE

\* line 37: cache_path.exists()
Exists(d, path) == path \in DOMAIN d

\* the values encode_file is called with
MaxLengths == {3, 4}
TokNames == {<<>>, <<"T", "5">>}
Prefixes == {<<>>, T5_PREFIX}

EncodeArgs ==
    [tokenizer : Tokenizers, max_length : MaxLengths,
     pad_to_max_length : BOOLEAN, overwrite_cache : BOOLEAN,
     prefix : Prefixes, tok_name : TokNames]

\* lines 39-42: the lines read, stripped, the prefix put in front
PrefixedLines(a) == [i \in DOMAIN file |-> a.prefix \o Strip(file[i])]

\* lines 40-51: one tokenizer call per line, results in file order
Examples(a) ==
    LET lns == PrefixedLines(a)
    IN  [i \in DOMAIN lns |->
            BatchEncodePlus(a.tokenizer, lns[i], a.max_length, a.pad_to_max_length)]

\* lines 36-53: one call of encode_file(tokenizer, DATA_PATH, ...).  The
\* record appended to calls tells what the call did: texts are the
\* tokenizer's inputs in call order, ret the list returned, wrote whether
\* torch.save ran, existed whether a cache file was there before the call,
\* by the arguments of the call that wrote the file now at the cache path,
\* left the content of that file after the call.
EncodeFile(a) ==
    /\ Len(calls) < MaxCalls
    /\ LET cache_path == CachePath(DATA_PATH, a.tok_name, a.max_length)
           existed == Exists(disk, cache_path)
       IN  IF ~a.overwrite_cache /\ existed
           THEN \* line 38
                /\ calls' = Append(calls,
                      [args |-> a, cached |-> TRUE, existed |-> existed,
                       texts |-> <<>>, wrote |-> FALSE,
                       ret |-> TorchLoad(disk, cache_path),
                       by |-> writer[cache_path],
                       left |-> disk[cache_path]])
                /\ UNCHANGED <<disk, writer>>
           ELSE \* lines 39-53
                LET examples == Examples(a)
                    saved == TorchSave(disk, cache_path, examples)
                IN  /\ disk' = saved
                    /\ writer' = (cache_path :> a) @@ writer
                    /\ calls' = Append(calls,
                          [args |-> a, cached |-> FALSE, existed |-> existed,
                           texts |-> PrefixedLines(a), wrote |-> TRUE,
                           ret |-> examples,
                           by |-> a,
                           left |-> saved[cache_path]])
    /\ UNCHANGED file
    /\ UNCHANGED <<samplerVars, datasetVars, collateVars>>

Encode == \E a \in EncodeArgs : EncodeFile(a)

\* the text files the model runs on
Line1 == <<" ", "a", "\n">>
Line2 == <<"b", " ", "a", " ", "\n">>
Files == {<<>>, <<Line1>>, <<Line1, Line2>>}

----------------------------------------------------------------------------
(* SummarizationDataset *)

\* line 57
pad_token_id == 1

\* n_obs=None is <<>>, n_obs=n is <<n>>
None == <<>>

\* s[:n] for n >= 0
SliceTo(s, n) == SubSeq(s, 1, Min(n, Len(s)))

\* tensor.squeeze() of a tensor of shape (1, L): every dimension of size 1
\* goes, so a single token is left as a 0-d value
Squeeze(t) == IF Len(t[1]) = 1 THEN t[1][1] ELSE t[1]

\* an Encoded Example as batch_encode_plus returns it for one text: a
\* dict-like object of two tensors of shape (1, L)
Encoded(row) ==
    [input_ids |-> <<row>>,
     attention_mask |-> <<[j \in DOMAIN row |-> IF row[j] = pad_token_id THEN 0 ELSE 1]>>]

\* the token rows the model builds its datasets from
ExampleRows == {<<5, 6, 1>>, <<5, 1, 1>>, <<5, 6>>}

\* every list of at most n Encoded Examples
EncodedLists(n) ==
    UNION {[1..m -> {Encoded(r) : r \in ExampleRows}] : m \in 0..n}

\* lines 94-102: SummarizationDataset(src, tgt, n_obs=n_obs)
Construct(src, tgt, n_obs) ==
    /\ ~built
    /\ built' = TRUE
    /\ given' = [source |-> src, target |-> tgt, n_obs |-> n_obs]
    /\ source' = IF n_obs # None THEN SliceTo(src, n_obs[1]) ELSE src
    /\ target' = IF n_obs # None THEN SliceTo(tgt, n_obs[1]) ELSE tgt
    /\ UNCHANGED res
    /\ UNCHANGED <<samplerVars, encodeVars, collateVars>>

\* lines 104-105: len(dataset)
DatasetLen ==
    /\ built
    /\ res' = [op |-> "len", value |-> Len(source)]
    /\ UNCHANGED <<given, built, source, target>>
    /\ UNCHANGED <<samplerVars, encodeVars, collateVars>>

\* lines 107-111: dataset[index], index >= 0; a list index out of range
\* raises IndexError
GetItem(index) ==
    /\ built
    /\ IF index >= Len(source) \/ index >= Len(target)
       THEN res' = [op |-> "getitem", index |-> index, raised |-> TRUE]
       ELSE LET source_ids == Squeeze(source[index + 1].input_ids)
                target_ids == Squeeze(target[index + 1].input_ids)
                src_mask == Squeeze(source[index + 1].attention_mask)
            IN  res' = [op |-> "getitem", index |-> index, raised |-> FALSE,
                        value |-> [input_ids |-> source_ids,
                                   attention_mask |-> src_mask,
                                   decoder_input_ids |-> target_ids]]
    /\ UNCHANGED <<given, built, source, target>>
    /\ UNCHANGED <<samplerVars, encodeVars, collateVars>>

\* lines 129-131: dataset.src_lens
SrcLens ==
    /\ built
    /\ res' = [op |-> "src_lens", value |-> LensOf(source)]
    /\ UNCHANGED <<given, built, source, target>>
    /\ UNCHANGED <<samplerVars, encodeVars, collateVars>>

\* lines 133-135: dataset.tgt_lens
TgtLens ==
    /\ built
    /\ res' = [op |-> "tgt_lens", value |-> LensOf(target)]
    /\ UNCHANGED <<given, built, source, target>>
    /\ UNCHANGED <<samplerVars, encodeVars, collateVars>>

\* lines 137-138 and 144-147: dataset.make_sortish_sampler(batch_size)
MakeSortishSampler(batch_size) ==
    /\ built
    /\ data_source' = source
    /\ bs' = batch_size
    /\ res' = [op |-> "make_sortish_sampler"]
    /\ UNCHANGED <<mega, pc, idxs, ck_idx, sort_idx, max_ck, order>>
    /\ UNCHANGED <<given, built, source, target>>
    /\ UNCHANGED <<encodeVars, collateVars>>

----------------------------------------------------------------------------
(* collate_fn *)

\* torch.stack(rows) succeeds on a non-empty list of tensors of one shape
Stackable(rows) ==
    /\ rows # <<>>
    /\ \A i, j \in DOMAIN rows : Len(rows[i]) = Len(rows[j])

\* the columns of m up to the last one in which some row holds something
\* other than pad: what is left when the trailing all-pad columns go
KeepColumns(m, pad) ==
    {j \in 1..Len(m[1]) :
        \E r \in DOMAIN m : \E k \in j..Len(m[1]) : m[r][k] # pad}

RECURSIVE Pick(_, _)
\* row[keep], keep a set of columns
Pick(row, keep) ==
    IF row = <<>> THEN <<>>
    ELSE LET n == Len(row)
             init == Pick(SubSeq(row, 1, n - 1), keep)
         IN  IF n \in keep THEN Append(init, row[n]) ELSE init

\* transformers.tokenization_utils.trim_batch(input_ids, pad_token_id):
\* the trailing columns that hold nothing but pad_token_id are removed
TrimBatch(input_ids, pad) ==
    [r \in DOMAIN input_ids |-> Pick(input_ids[r], KeepColumns(input_ids, pad))]

\* trim_batch(input_ids, pad_token_id, attention_mask=mask): the mask loses
\* the same columns
TrimBatchMask(input_ids, pad, mask) ==
    [r \in DOMAIN mask |-> Pick(mask[r], KeepColumns(input_ids, pad))]

\* collate_fn with the targets stacked and returned untrimmed
CollateNoTargetTrim(b) ==
    LET input_ids == [x \in DOMAIN b |-> b[x].input_ids]
        masks == [x \in DOMAIN b |-> b[x].attention_mask]
        target_ids == [x \in DOMAIN b |-> b[x].decoder_input_ids]
    IN  [input_ids |-> TrimBatch(input_ids, pad_token_id),
         attention_mask |-> TrimBatchMask(input_ids, pad_token_id, masks),
         decoder_input_ids |-> target_ids]

\* lines 120-127: what collate_fn returns once the three stacks are built
Collated(b) ==
    LET input_ids == [x \in DOMAIN b |-> b[x].input_ids]
        masks == [x \in DOMAIN b |-> b[x].attention_mask]
        target_ids == [x \in DOMAIN b |-> b[x].decoder_input_ids]
        y == TrimBatch(target_ids, pad_token_id)
        source_ids == TrimBatch(input_ids, pad_token_id)
        source_mask == TrimBatchMask(input_ids, pad_token_id, masks)
    IN  [input_ids |-> source_ids, attention_mask |-> source_mask,
         decoder_input_ids |-> y]

\* lines 119-127: dataset.collate_fn(batch); torch.stack raises RuntimeError
\* on an empty list and on tensors of different sizes
CollateFn ==
    /\ out.op = "none"
    /\ IF /\ Stackable([x \in DOMAIN batch |-> batch[x].input_ids])
          /\ Stackable([x \in DOMAIN batch |-> batch[x].attention_mask])
          /\ Stackable([x \in DOMAIN batch |-> batch[x].decoder_input_ids])
       THEN out' = [op |-> "collate", raised |-> FALSE, value |-> Collated(batch)]
       ELSE out' = [op |-> "collate", raised |-> TRUE]
    /\ UNCHANGED batch
    /\ UNCHANGED <<samplerVars, encodeVars, datasetVars>>

\* the token rows the model builds items from: real tokens then padding,
\* padding inside or in front, and a row of another length
ItemRows ==
    {<<5, 6, 7>>, <<5, 6, 1>>, <<5, 1, 1>>, <<1, 1, 1>>, <<5, 1, 6>>, <<1, 5, 1>>,
     <<5, 1>>}

\* an item as __getitem__ returns it (1-D tensors)
ItemOf(src, tgt) ==
    [input_ids |-> src,
     attention_mask |-> Squeeze(Encoded(src).attention_mask),
     decoder_input_ids |-> tgt]

Items == {ItemOf(s, t) : s \in ItemRows, t \in ItemRows}

\* every list of at most n items
ItemLists(n) == UNION {[1..m -> Items] : m \in 0..n}

----------------------------------------------------------------------------
(* Specifications *)

\* no call of encode_file made, no cache file
EncodeIdle ==
    /\ file = <<>>
    /\ disk = <<>>
    /\ writer = <<>>
    /\ calls = <<>>

\* no __iter__ started
IterIdle ==
    /\ pc = "start"
    /\ idxs = <<>>
    /\ ck_idx = <<>>
    /\ sort_idx = <<>>
    /\ max_ck = 0
    /\ order = <<>>

\* no sampler made
SamplerIdle ==
    /\ data_source = <<>>
    /\ bs = 1
    /\ mega = MEGABATCH_MULT
    /\ IterIdle

\* no dataset built
DatasetIdle ==
    /\ given = [n_obs |-> <<>>, source |-> <<>>, target |-> <<>>]
    /\ built = FALSE
    /\ source = <<>>
    /\ target = <<>>
    /\ res = [op |-> "none"]

\* collate_fn not called
CollateIdle ==
    /\ batch = <<>>
    /\ out = [op |-> "none"]

\* SortishSampler as the code has it: megabatches of 50 * bs
InitSampler ==
    /\ data_source \in DataSources(MaxN, MaxKey)
    /\ bs \in 1..MaxBs
    /\ mega = MEGABATCH_MULT
    /\ IterIdle
    /\ EncodeIdle /\ DatasetIdle /\ CollateIdle

SpecSampler == InitSampler /\ [][Iter]_vars

\* the same sampler on batches of several indices, also with megabatches
\* small enough for more than one to occur
InitMega ==
    /\ data_source \in DataSources(MegaN, MegaKey)
    /\ bs \in 2..MegaBs
    /\ mega \in {MegaScaled, MEGABATCH_MULT}
    /\ IterIdle
    /\ EncodeIdle /\ DatasetIdle /\ CollateIdle

SpecMega == InitMega /\ [][Iter]_vars

\* encode_file called on one unchanged text file, no cache file to begin with
InitEncode ==
    /\ file \in Files
    /\ disk = <<>>
    /\ writer = <<>>
    /\ calls = <<>>
    /\ SamplerIdle /\ DatasetIdle /\ CollateIdle

SpecEncode == InitEncode /\ [][Encode]_vars

\* a dataset built from any two lists, then used
InitDataset ==
    SamplerIdle /\ EncodeIdle /\ DatasetIdle /\ CollateIdle

NextDataset ==
    \/ \E src, tgt \in EncodedLists(MaxPairs) :
          \E n_obs \in {None} \cup {<<n>> : n \in 0..MaxObs} :
             Construct(src, tgt, n_obs)
    \/ DatasetLen
    \/ \E index \in 0..(MaxPairs - 1) : GetItem(index)
    \/ SrcLens
    \/ TgtLens
    \/ \E batch_size \in 1..MaxBatchSize : MakeSortishSampler(batch_size)

SpecDataset == InitDataset /\ [][NextDataset]_vars

\* collate_fn called on any list of items
InitCollate ==
    /\ batch \in ItemLists(MaxBatch)
    /\ out = [op |-> "none"]
    /\ SamplerIdle /\ EncodeIdle /\ DatasetIdle

SpecCollate == InitCollate /\ [][CollateFn]_vars
----------------------------------------------------------------------------
(* Claims about SortishSampler.__iter__ *)

\* s lists every index 0..n-1 exactly once
IsPermutationOfRange(s, n) ==
    /\ Len(s) = n
    /\ \A i \in 0..(n - 1) : Cardinality({p \in DOMAIN s : s[p] = i}) = 1

\* the megabatches of the run: the chunks of 50 * bs entries of idxs
Megabatches == MegabatchesOf(idxs)

NonIncreasingKeys(b) ==
    \A p \in 1..(Len(b) - 1) : key(b[p]) >= key(b[p + 1])

\* C1: for every N >= 0 and batch size >= 1 and every random outcome,
\* __iter__ completes without error and yields each of 0..N-1 exactly once.
C1_IterYieldsPermutation ==
    /\ pc # "raised"
    /\ pc = "done" => IsPermutationOfRange(order, SamplerLen)

\* what does hold of __iter__: it raises exactly on the empty data source,
\* and on every other one it yields each of 0..N-1 exactly once
IterPermutationUnlessEmpty ==
    /\ pc = "raised" => SamplerLen = 0
    /\ pc = "done" => SamplerLen >= 1 /\ IsPermutationOfRange(order, SamplerLen)

\* C2: for N >= 1 the first index yielded has a key that is maximal among
\* the keys of all N indices, and no candidate batch starts with a key
\* larger than that of the first entry of the batch put at position 0.
C2_FirstHasMaxKey ==
    (pc = "done" /\ SamplerLen >= 1) =>
        /\ \A i \in 0..(SamplerLen - 1) : key(i) <= key(order[1])
        /\ order[1] = ck_idx[1][1]
        /\ \A c \in DOMAIN ck_idx : key(ck_idx[c][1]) <= key(ck_idx[1][1])

\* C2's case: several megabatches, the largest key found in a later batch
\* (the swap of line 163 moved it), and keys that differ
C2_Witness ==
    /\ pc = "done"
    /\ Len(Megabatches) >= 2
    /\ max_ck > 0
    /\ \E i \in 0..(SamplerLen - 1) : key(i) < key(order[1])

\* C3: every batch a consumer cuts from the produced order (consecutive
\* groups of bs indices) is one of the candidate batches of line 161: its
\* indices come from one megabatch, in non-increasing key order.
C3_ConsumerBatchesAreCandidates ==
    pc = "done" =>
        \A b \in Range(Chunks(order, bs)) :
            /\ b \in Range(ck_idx)
            /\ NonIncreasingKeys(b)
            /\ \E m \in Range(Megabatches) : Range(b) \subseteq Range(m)

\* what does hold: when N is a multiple of bs the consumer's batches are
\* the candidate batches
ConsumerBatchesWhenDivisible ==
    (pc = "done" /\ SamplerLen % bs = 0) =>
        \A b \in Range(Chunks(order, bs)) :
            /\ b \in Range(ck_idx)
            /\ NonIncreasingKeys(b)
            /\ \E m \in Range(Megabatches) : Range(b) \subseteq Range(m)


----------------------------------------------------------------------------
(* Claims about encode_file *)

\* two calls get the same derived cache path from the same file
SameCacheKey(a1, a2) ==
    a1.tok_name = a2.tok_name /\ a1.max_length = a2.max_length

\* two calls encode alike: every argument the encoding reads agrees
SameEncoding(a1, a2) ==
    /\ a1.tokenizer = a2.tokenizer
    /\ a1.max_length = a2.max_length
    /\ a1.prefix = a2.prefix
    /\ a1.pad_to_max_length = a2.pad_to_max_length

\* t is the line without the whitespace at its two ends
IsStripOf(t, line) ==
    /\ t # <<>> => t[1] \notin Whitespace /\ t[Len(t)] \notin Whitespace
    /\ \E a, b \in 0..Len(line) :
          /\ a + Len(t) + b = Len(line)
          /\ SubSeq(line, a + 1, a + Len(t)) = t
          /\ \A j \in (1..a) \cup ((Len(line) - b + 1)..Len(line)) :
                line[j] \in Whitespace

\* C4: with no cache file at the derived path, of two successive calls on
\* the same file with the same tokenizer name and max length and
\* overwrite_cache=False the first runs the tokenizer once per line, the
\* second not at all; the second returns the first's list and writes nothing.
C4_SecondCallFromCache ==
    \A i \in 1..(Len(calls) - 1) :
        LET c1 == calls[i]
            c2 == calls[i + 1]
        IN  (/\ ~c1.existed
             /\ ~c1.args.overwrite_cache /\ ~c2.args.overwrite_cache
             /\ SameCacheKey(c1.args, c2.args))
            => /\ Len(c1.texts) = Len(file)
               /\ c2.texts = <<>>
               /\ c2.ret = c1.ret
               /\ ~c2.wrote

\* C4's case: such a pair of calls on a file that has lines
C4_Witness ==
    /\ Len(calls) = 2
    /\ Len(file) = 2
    /\ ~calls[1].existed
    /\ ~calls[1].args.overwrite_cache /\ ~calls[2].args.overwrite_cache
    /\ calls[1].args = calls[2].args
    /\ calls[2].cached

\* C5: every call answered from the cache returns what a direct, uncached
\* encode with that call's own arguments would return.
C5_CachedEqualsDirect ==
    \A i \in DOMAIN calls :
        calls[i].cached => calls[i].ret = Examples(calls[i].args)

\* C5 as amended: a call answered from a cache file written by a call with
\* the same tokenizer, max_length, prefix and pad_to_max_length returns what
\* a direct, uncached encode with its own arguments would return.
C5_CachedEqualsDirectOfSameArgs ==
    \A i \in DOMAIN calls :
        (calls[i].cached /\ SameEncoding(calls[i].by, calls[i].args))
            => calls[i].ret = Examples(calls[i].args)

\* C5's case: a call answered from a cache file that an alike call wrote,
\* on a file that has lines
C5_Witness ==
    \E i \in DOMAIN calls :
        /\ calls[i].cached
        /\ SameEncoding(calls[i].by, calls[i].args)
        /\ calls[i].ret # <<>>

\* C10: a call not answered from the cache (no file at the derived path, or
\* overwrite_cache=True) runs the tokenizer once per line, on prefix +
\* stripped line, returns one example per line in file order, and leaves
\* exactly the returned list at the derived cache path.
C10_UncachedEncodesAndSaves ==
    \A i \in DOMAIN calls :
        LET c == calls[i]
        IN  (c.args.overwrite_cache \/ ~c.existed)
            => /\ ~c.cached
               /\ c.wrote
               /\ Len(c.texts) = Len(file)
               /\ Len(c.ret) = Len(file)
               /\ \A k \in DOMAIN file :
                     LET n == Len(c.args.prefix)
                     IN  /\ SubSeq(c.texts[k], 1, n) = c.args.prefix
                         /\ IsStripOf(SubSeq(c.texts[k], n + 1, Len(c.texts[k])),
                                      file[k])
                         /\ c.ret[k] =
                               BatchEncodePlus(c.args.tokenizer, c.texts[k],
                                   c.args.max_length, c.args.pad_to_max_length)
               /\ c.left = c.ret

\* C10's case: overwrite_cache=True on an existing cache file whose content
\* the call replaces by a different list
C10_Witness ==
    /\ Len(calls) = 2
    /\ calls[2].args.overwrite_cache
    /\ calls[2].existed
    /\ SameCacheKey(calls[1].args, calls[2].args)
    /\ calls[2].left # calls[1].left
    /\ Len(file) = 2

----------------------------------------------------------------------------
(* Claims about SummarizationDataset *)

\* C6: the dataset's length is min(len(source), len(target)) when n_obs is
\* not given, and n_obs when n_obs is given and smaller than the full set.
C6_LenIsMinOrNObs ==
    res.op = "len" =>
        LET full == Min(Len(given.source), Len(given.target))
        IN  /\ given.n_obs = None => res.value = full
            /\ (given.n_obs # None /\ given.n_obs[1] < full)
                  => res.value = given.n_obs[1]

\* what does hold: the length is that of the stored source list alone
LenIsStoredSourceLen ==
    res.op = "len" =>
        /\ res.value = Len(source)
        /\ given.n_obs = None => res.value = Len(given.source)
        /\ given.n_obs # None
              => res.value = Min(given.n_obs[1], Len(given.source))

\* the number of token ids of an Encoded Example
TokenCount(example) == Len(example.input_ids[1])

\* C8: the key the sampler made by make_sortish_sampler uses for index i,
\* and the i-th entry of src_lens, are the number of token ids of source
\* example i; examples of different source length get different keys.
C8_KeyIsSourceLength ==
    /\ (built /\ res.op = "make_sortish_sampler") =>
          /\ \A i \in 0..(Len(source) - 1) : key(i) = TokenCount(source[i + 1])
          /\ \A i, j \in 0..(Len(source) - 1) :
                TokenCount(source[i + 1]) # TokenCount(source[j + 1])
                   => key(i) # key(j)
    /\ res.op = "src_lens" =>
          \A i \in DOMAIN source : res.value[i] = TokenCount(source[i])

\* what does hold: every key and every src_lens entry is the number of
\* fields of the Encoded Example, the same for all examples
KeyIsFieldCount ==
    /\ (built /\ res.op = "make_sortish_sampler") =>
          \A i \in 0..(Len(source) - 1) : key(i) = 2
    /\ res.op = "src_lens" => \A i \in DOMAIN source : res.value[i] = 2

\* C9: for every dataset the constructor accepts and every index
\* 0 <= i < len(dataset), dataset[i] succeeds and pairs source example i
\* with target example i; the stored lists have equal length.
C9_GetItemPairs ==
    (res.op = "getitem" /\ res.index < Len(source)) =>
        /\ ~res.raised
        /\ res.value =
              [input_ids |-> Squeeze(source[res.index + 1].input_ids),
               attention_mask |-> Squeeze(source[res.index + 1].attention_mask),
               decoder_input_ids |-> Squeeze(target[res.index + 1].input_ids)]
        /\ Len(source) = Len(target)

\* what does hold: indexed access succeeds below both lists' lengths
GetItemWithinBoth ==
    res.op = "getitem" =>
        (res.raised <=> (res.index >= Len(source) \/ res.index >= Len(target)))

----------------------------------------------------------------------------
(* Claims about collate_fn *)

\* the non-pad tokens of a row, in order
RECURSIVE NonPad(_)
NonPad(row) ==
    IF row = <<>> THEN <<>>
    ELSE IF Head(row) = pad_token_id THEN NonPad(Tail(row))
    ELSE <<Head(row)>> \o NonPad(Tail(row))

\* real (non-pad) tokens first, then nothing but padding
TrailingPadded(row) ==
    \E k \in 0..Len(row) :
        /\ \A j \in 1..k : row[j] # pad_token_id
        /\ \A j \in (k + 1)..Len(row) : row[j] = pad_token_id

RealLen(row) == Len(NonPad(row))

MaxOf(S) == CHOOSE m \in S : \A x \in S : x <= m

\* a non-empty batch of items padded at the end to a common length
PaddedBatch(b) ==
    /\ b # <<>>
    /\ \A x \in DOMAIN b :
          /\ TrailingPadded(b[x].input_ids)
          /\ TrailingPadded(b[x].decoder_input_ids)
          /\ Len(b[x].input_ids) = Len(b[1].input_ids)
          /\ Len(b[x].attention_mask) = Len(b[1].input_ids)
          /\ Len(b[x].decoder_input_ids) = Len(b[1].decoder_input_ids)

\* C7: on a non-empty batch of items whose token rows are real tokens
\* followed by padding (pad_token_id, 1) up to a common length, collate_fn
\* returns input_ids as wide as the longest real source content, an
\* attention_mask of the same shape, decoder_input_ids as wide as the
\* longest real target content, one row per item, no non-pad token lost.
C7_CollateTrimsToLongest ==
    (out.op = "collate" /\ PaddedBatch(batch)) =>
        /\ ~out.raised
        /\ LET v == out.value
           IN  /\ Len(v.input_ids) = Len(batch)
               /\ Len(v.attention_mask) = Len(batch)
               /\ Len(v.decoder_input_ids) = Len(batch)
               /\ \A x \in DOMAIN batch :
                     /\ Len(v.input_ids[x]) =
                           MaxOf({RealLen(batch[y].input_ids) : y \in DOMAIN batch})
                     /\ Len(v.attention_mask[x]) = Len(v.input_ids[x])
                     /\ Len(v.decoder_input_ids[x]) =
                           MaxOf({RealLen(batch[y].decoder_input_ids) : y \in DOMAIN batch})
                     /\ NonPad(v.input_ids[x]) = NonPad(batch[x].input_ids)
                     /\ NonPad(v.decoder_input_ids[x]) =
                           NonPad(batch[x].decoder_input_ids)

\* C7's case: two items of different real lengths, both sides padded beyond
\* the longest, so that columns are removed
C7_Witness ==
    /\ out.op = "collate"
    /\ PaddedBatch(batch)
    /\ Len(batch) = 2
    /\ RealLen(batch[1].input_ids) < RealLen(batch[2].input_ids)
    /\ RealLen(batch[2].input_ids) < Len(batch[2].input_ids)
    /\ RealLen(batch[1].decoder_input_ids) > RealLen(batch[2].decoder_input_ids)
    /\ RealLen(batch[1].decoder_input_ids) < Len(batch[1].decoder_input_ids)
    /\ Len(out.value.input_ids[1]) < Len(batch[1].input_ids)
====
